---- MODULE Spec2Model ----
(***************************************************************************)
(* dbt2looker: the translation of dbt model metadata into LookML fields.   *)
(*                                                                         *)
(* The generator is a library of pure functions over parsed (pydantic)     *)
(* objects.  A behaviour of this module takes one input, parses it where   *)
(* the code parses it, and applies one function of the generator to it.    *)
(*                                                                         *)
(* Python values are written as follows.                                   *)
(*   str            a sequence of one-character strings                    *)
(*   Optional[x]    None = <<>>, a present value v = <<v>>                 *)
(*   enum members   their value, a TLA+ string ("number", "yes", ...)      *)
(*   dict           keys of the code: a function, a key is present iff it  *)
(*                  is in DOMAIN; keys of the input (columns, a filter):   *)
(*                  the sequence of its (key, value) pairs, in order       *)
(*   list / tuple   a sequence                                             *)
(*   a call         [kind |-> "return", value, log] or                     *)
(*                  [kind |-> "raise", exc, msg, log]                      *)
(***************************************************************************)
EXTENDS Integers, Sequences, FiniteSets, TLC

VARIABLES
    phase,      \* "raw": input not parsed yet; "parsed"; "rejected"; "done"
    subject,    \* the input under processing, raw or parsed
    call,       \* the generator function applied, with the arguments chosen
    ret,        \* the outcome of the last constructor or generator call
    log         \* the warnings logged so far

vars == <<phase, subject, call, ret, log>>

-----------------------------------------------------------------------------
(* Python values *)

None == <<>>
Some(v) == <<v>>

\* Python truthiness of an Optional[str], Optional[list] or Optional[enum].
Truthy(o) == o # None /\ o[1] # <<>>

\* `a or b` over two optionals.
OrElse(a, b) == IF Truthy(a) THEN a ELSE b

Return(v, l) == [kind |-> "return", value |-> v, log |-> l]
Raise(e, m, l) == [kind |-> "raise", exc |-> e, msg |-> m, log |-> l]

\* The caller has logged lg and makes the call x: if x raised, the caller raises
\* the same; otherwise it goes on with F(x).
Bind(x, lg, F(_)) == IF x.kind = "raise" THEN Raise(x.exc, x.msg, lg \o x.log) ELSE F(x)

\* `d[key] = val` when cond holds.
SetIf(cond, key, val, d) == (IF cond THEN key :> val ELSE <<>>) @@ d

-----------------------------------------------------------------------------
(* str methods, on sequences of characters *)

LOWER == <<"a","b","c","d","e","f","g","h","i","j","k","l","m",
           "n","o","p","q","r","s","t","u","v","w","x","y","z">>
UPPER == <<"A","B","C","D","E","F","G","H","I","J","K","L","M",
           "N","O","P","Q","R","S","T","U","V","W","X","Y","Z">>

UpperChar(c) ==
    IF \E i \in DOMAIN LOWER : LOWER[i] = c
    THEN UPPER[CHOOSE i \in DOMAIN LOWER : LOWER[i] = c]
    ELSE c

LowerChar(c) ==
    IF \E i \in DOMAIN UPPER : UPPER[i] = c
    THEN LOWER[CHOOSE i \in DOMAIN UPPER : UPPER[i] = c]
    ELSE c

\* str.upper() and str.lower()
Upper(s) == [i \in DOMAIN s |-> UpperChar(s[i])]
Lower(s) == [i \in DOMAIN s |-> LowerChar(s[i])]

\* str.capitalize(): first character upper-cased, the rest lower-cased.
Capitalize(s) == [i \in DOMAIN s |-> IF i = 1 THEN UpperChar(s[i]) ELSE LowerChar(s[i])]

\* str.startswith(p)
StartsWith(s, p) == Len(s) >= Len(p) /\ SubSeq(s, 1, Len(p)) = p

EndsWith(s, p) == Len(s) >= Len(p) /\ SubSeq(s, Len(s) - Len(p) + 1, Len(s)) = p

\* str.removesuffix(p)
RemoveSuffix(s, p) ==
    IF p # <<>> /\ EndsWith(s, p) THEN SubSeq(s, 1, Len(s) - Len(p)) ELSE s

\* repr() of a str without quotes or escapes in it: str(KeyError(k)) is repr(k).
Repr(s) == <<"'">> \o s \o <<"'">>

\* The characters of s as one TLA+ string, the form of the keys of the type tables.
RECURSIVE Join(_)
Join(s) == IF s = <<>> THEN "" ELSE Head(s) \o Join(Tail(s))

\* Concatenation of a sequence of strs (an f-string's pieces).
RECURSIVE Concat(_)
Concat(ss) == IF ss = <<>> THEN <<>> ELSE Head(ss) \o Concat(Tail(ss))

\* LOOKER_DTYPE_MAP: per adapter, native type name -> Looker type.
LOOKER_DTYPE_MAP ==
       ("bigquery" :> (
              ("INT64" :> "number")
           @@ ("INTEGER" :> "number")
           @@ ("FLOAT" :> "number")
           @@ ("FLOAT64" :> "number")
           @@ ("NUMERIC" :> "number")
           @@ ("BIGNUMERIC" :> "number")
           @@ ("BOOLEAN" :> "yesno")
           @@ ("STRING" :> "string")
           @@ ("TIMESTAMP" :> "timestamp")
           @@ ("DATETIME" :> "datetime")
           @@ ("DATE" :> "date")
           @@ ("TIME" :> "string")
           @@ ("BOOL" :> "yesno")
           @@ ("ARRAY" :> "string")
           @@ ("GEOGRAPHY" :> "string")
           @@ ("BYTES" :> "string")
       ))
    @@ ("snowflake" :> (
              ("NUMBER" :> "number")
           @@ ("DECIMAL" :> "number")
           @@ ("NUMERIC" :> "number")
           @@ ("INT" :> "number")
           @@ ("INTEGER" :> "number")
           @@ ("BIGINT" :> "number")
           @@ ("SMALLINT" :> "number")
           @@ ("FLOAT" :> "number")
           @@ ("FLOAT4" :> "number")
           @@ ("FLOAT8" :> "number")
           @@ ("DOUBLE" :> "number")
           @@ ("DOUBLE PRECISION" :> "number")
           @@ ("REAL" :> "number")
           @@ ("VARCHAR" :> "string")
           @@ ("CHAR" :> "string")
           @@ ("CHARACTER" :> "string")
           @@ ("STRING" :> "string")
           @@ ("TEXT" :> "string")
           @@ ("BINARY" :> "string")
           @@ ("VARBINARY" :> "string")
           @@ ("BOOLEAN" :> "yesno")
           @@ ("DATE" :> "date")
           @@ ("DATETIME" :> "datetime")
           @@ ("TIME" :> "string")
           @@ ("TIMESTAMP" :> "timestamp")
           @@ ("TIMESTAMP_NTZ" :> "timestamp")
           @@ ("VARIANT" :> "string")
           @@ ("OBJECT" :> "string")
           @@ ("ARRAY" :> "string")
           @@ ("GEOGRAPHY" :> "string")
       ))
    @@ ("redshift" :> (
              ("SMALLINT" :> "number")
           @@ ("INT2" :> "number")
           @@ ("INTEGER" :> "number")
           @@ ("INT" :> "number")
           @@ ("INT4" :> "number")
           @@ ("BIGINT" :> "number")
           @@ ("INT8" :> "number")
           @@ ("DECIMAL" :> "number")
           @@ ("NUMERIC" :> "number")
           @@ ("REAL" :> "number")
           @@ ("FLOAT4" :> "number")
           @@ ("DOUBLE PRECISION" :> "number")
           @@ ("FLOAT8" :> "number")
           @@ ("FLOAT" :> "number")
           @@ ("BOOLEAN" :> "yesno")
           @@ ("BOOL" :> "yesno")
           @@ ("CHAR" :> "string")
           @@ ("CHARACTER" :> "string")
           @@ ("NCHAR" :> "string")
           @@ ("BPCHAR" :> "string")
           @@ ("VARCHAR" :> "string")
           @@ ("CHARACTER VARYING" :> "string")
           @@ ("NVARCHAR" :> "string")
           @@ ("TEXT" :> "string")
           @@ ("DATE" :> "date")
           @@ ("TIMESTAMP" :> "timestamp")
           @@ ("TIMESTAMP WITHOUT TIME ZONE" :> "timestamp")
           @@ ("GEOMETRY" :> "string")
           @@ ("TIME" :> "string")
           @@ ("TIME WITHOUT TIME ZONE" :> "string")
       ))
    @@ ("postgres" :> (
              ("XML" :> "string")
           @@ ("UUID" :> "string")
           @@ ("PG_LSN" :> "string")
           @@ ("MACADDR" :> "string")
           @@ ("JSON" :> "string")
           @@ ("JSONB" :> "string")
           @@ ("CIDR" :> "string")
           @@ ("INET" :> "string")
           @@ ("MONEY" :> "number")
           @@ ("SMALLINT" :> "number")
           @@ ("INT2" :> "number")
           @@ ("SMALLSERIAL" :> "number")
           @@ ("SERIAL2" :> "number")
           @@ ("INTEGER" :> "number")
           @@ ("INT" :> "number")
           @@ ("INT4" :> "number")
           @@ ("SERIAL" :> "number")
           @@ ("SERIAL4" :> "number")
           @@ ("BIGINT" :> "number")
           @@ ("INT8" :> "number")
           @@ ("BIGSERIAL" :> "number")
           @@ ("SERIAL8" :> "number")
           @@ ("DECIMAL" :> "number")
           @@ ("NUMERIC" :> "number")
           @@ ("REAL" :> "number")
           @@ ("FLOAT4" :> "number")
           @@ ("DOUBLE PRECISION" :> "number")
           @@ ("FLOAT8" :> "number")
           @@ ("FLOAT" :> "number")
           @@ ("BOOLEAN" :> "yesno")
           @@ ("BOOL" :> "yesno")
           @@ ("CHAR" :> "string")
           @@ ("CHARACTER" :> "string")
           @@ ("NCHAR" :> "string")
           @@ ("BPCHAR" :> "string")
           @@ ("VARCHAR" :> "string")
           @@ ("CHARACTER VARYING" :> "string")
           @@ ("NVARCHAR" :> "string")
           @@ ("TEXT" :> "string")
           @@ ("DATE" :> "date")
           @@ ("TIMESTAMP" :> "timestamp")
           @@ ("TIMESTAMP WITHOUT TIME ZONE" :> "timestamp")
           @@ ("GEOMETRY" :> "string")
           @@ ("TIME" :> "string")
           @@ ("TIME WITHOUT TIME ZONE" :> "string")
           @@ ("STRING" :> "string")
       ))
    @@ ("spark" :> (
              ("BYTE" :> "number")
           @@ ("SHORT" :> "number")
           @@ ("INTEGER" :> "number")
           @@ ("LONG" :> "number")
           @@ ("FLOAT" :> "number")
           @@ ("DOUBLE" :> "number")
           @@ ("DECIMAL" :> "number")
           @@ ("STRING" :> "string")
           @@ ("VARCHAR" :> "string")
           @@ ("CHAR" :> "string")
           @@ ("BOOLEAN" :> "yesno")
           @@ ("TIMESTAMP" :> "timestamp")
           @@ ("DATE" :> "datetime")
       ))

\* Every key of every adapter's table, spelled as a sequence of characters.
TypeNames ==
    { <<"I","N","T","6","4">>,
      <<"I","N","T","E","G","E","R">>,
      <<"F","L","O","A","T">>,
      <<"F","L","O","A","T","6","4">>,
      <<"N","U","M","E","R","I","C">>,
      <<"B","I","G","N","U","M","E","R","I","C">>,
      <<"B","O","O","L","E","A","N">>,
      <<"S","T","R","I","N","G">>,
      <<"T","I","M","E","S","T","A","M","P">>,
      <<"D","A","T","E","T","I","M","E">>,
      <<"D","A","T","E">>,
      <<"T","I","M","E">>,
      <<"B","O","O","L">>,
      <<"A","R","R","A","Y">>,
      <<"G","E","O","G","R","A","P","H","Y">>,
      <<"B","Y","T","E","S">>,
      <<"N","U","M","B","E","R">>,
      <<"D","E","C","I","M","A","L">>,
      <<"I","N","T">>,
      <<"B","I","G","I","N","T">>,
      <<"S","M","A","L","L","I","N","T">>,
      <<"F","L","O","A","T","4">>,
      <<"F","L","O","A","T","8">>,
      <<"D","O","U","B","L","E">>,
      <<"D","O","U","B","L","E"," ","P","R","E","C","I","S","I","O","N">>,
      <<"R","E","A","L">>,
      <<"V","A","R","C","H","A","R">>,
      <<"C","H","A","R">>,
      <<"C","H","A","R","A","C","T","E","R">>,
      <<"T","E","X","T">>,
      <<"B","I","N","A","R","Y">>,
      <<"V","A","R","B","I","N","A","R","Y">>,
      <<"T","I","M","E","S","T","A","M","P","_","N","T","Z">>,
      <<"V","A","R","I","A","N","T">>,
      <<"O","B","J","E","C","T">>,
      <<"I","N","T","2">>,
      <<"I","N","T","4">>,
      <<"I","N","T","8">>,
      <<"N","C","H","A","R">>,
      <<"B","P","C","H","A","R">>,
      <<"C","H","A","R","A","C","T","E","R"," ","V","A","R","Y","I","N","G">>,
      <<"N","V","A","R","C","H","A","R">>,
      <<"T","I","M","E","S","T","A","M","P"," ","W","I","T","H","O","U","T"," ","T","I","M","E"," ","Z","O","N","E">>,
      <<"G","E","O","M","E","T","R","Y">>,
      <<"T","I","M","E"," ","W","I","T","H","O","U","T"," ","T","I","M","E"," ","Z","O","N","E">>,
      <<"X","M","L">>,
      <<"U","U","I","D">>,
      <<"P","G","_","L","S","N">>,
      <<"M","A","C","A","D","D","R">>,
      <<"J","S","O","N">>,
      <<"J","S","O","N","B">>,
      <<"C","I","D","R">>,
      <<"I","N","E","T">>,
      <<"M","O","N","E","Y">>,
      <<"S","M","A","L","L","S","E","R","I","A","L">>,
      <<"S","E","R","I","A","L","2">>,
      <<"S","E","R","I","A","L">>,
      <<"S","E","R","I","A","L","4">>,
      <<"B","I","G","S","E","R","I","A","L">>,
      <<"S","E","R","I","A","L","8">>,
      <<"B","Y","T","E">>,
      <<"S","H","O","R","T">>,
      <<"L","O","N","G">> }

-----------------------------------------------------------------------------
(* generator.py: the type mapper *)

SupportedDbtAdapters == {"bigquery", "postgres", "redshift", "snowflake", "spark"}

looker_date_time_types == <<"datetime", "timestamp">>

\* The scalar types without `date`.
looker_scalar_types_dropped == <<"number", "yesno", "string">>
looker_scalar_types == <<"number", "yesno", "string", "date">>

looker_timeframes == <<<<"r","a","w">>, <<"t","i","m","e">>, <<"d","a","t","e">>, <<"w","e","e","k">>, <<"m","o","n","t","h">>, <<"q","u","a","r","t","e","r">>, <<"y","e","a","r">>>>

looker_intervals == <<<<"h","o","u","r">>, <<"d","a","y">>>>

\* `x in lst` for an Optional x and a list of values.
In(o, lst) == o # None /\ \E i \in DOMAIN lst : lst[i] = o[1]

\* re.match(r"^[^\(]*", column_type).group(0): the prefix before the first "(".
RECURSIVE normalise_spark_types(_)
normalise_spark_types(column_type) ==
    IF column_type = <<>> \/ Head(column_type) = "("
    THEN <<>>
    ELSE <<Head(column_type)>> \o normalise_spark_types(Tail(column_type))

\* The character class [,\d].
CommaOrDigit == {",", "0", "1", "2", "3", "4", "5", "6", "7", "8", "9"}

\* The position after the longest run of [,\d] characters that starts at i.
RECURSIVE RunEnd(_, _)
RunEnd(s, i) ==
    IF i <= Len(s) /\ s[i] \in CommaOrDigit THEN RunEnd(s, i + 1) ELSE i

\* The position of the ")" closing a match of \([,\d]+\) that starts at i, 0 if none.
MatchEnd(s, i) ==
    IF s[i] # "("
    THEN 0
    ELSE LET j == RunEnd(s, i + 1)
         IN  IF j > i + 1 /\ j <= Len(s) /\ s[j] = ")" THEN j ELSE 0

\* re.sub(r"\([,\d]+\)", "", s) from position i on: one left-to-right pass that
\* drops every non-overlapping match.
RECURSIVE SubFrom(_, _)
SubFrom(s, i) ==
    IF i > Len(s)
    THEN <<>>
    ELSE LET e == MatchEnd(s, i)
         IN  IF e > 0 THEN SubFrom(s, e + 1) ELSE <<s[i]>> \o SubFrom(s, i + 1)

re_sub_precision(column_type) == SubFrom(column_type, 1)

\* The normalised type, not upper-cased.
normalised_column_type_cased(adapter_type, column_type) ==
    IF adapter_type = "spark"
    THEN normalise_spark_types(column_type)
    ELSE re_sub_precision(column_type)

\* Lines 206-210: the normalised column type of a column type that is a str.
normalised_column_type(adapter_type, column_type) ==
    Upper(IF adapter_type = "spark"
          THEN normalise_spark_types(column_type)
          ELSE re_sub_precision(column_type))

Warning(column_type, adapter_type) ==
    [level |-> "warning", column_type |-> column_type, adapter_type |-> adapter_type]

\* column_type is Optional[str]: re.match and re.sub raise TypeError on None, before
\* the test `column_type is not None` of line 212 is reached.
map_adapter_type_to_looker(adapter_type, column_type) ==
    IF column_type = None
    THEN Raise("TypeError", <<"e","x","p","e","c","t","e","d"," ","s","t","r","i","n","g"," ","o","r"," ","b","y","t","e","s","-","l","i","k","e"," ","o","b","j","e","c","t">>, <<>>)
    ELSE LET key == Join(normalised_column_type(adapter_type, column_type[1]))
             table == LOOKER_DTYPE_MAP[adapter_type]
             looker_type == IF key \in DOMAIN table THEN Some(table[key]) ELSE None
         IN  Return(looker_type,
                    IF column_type # None /\ looker_type = None
                    THEN <<Warning(column_type[1], adapter_type)>>
                    ELSE <<>>)

-----------------------------------------------------------------------------
(* models.py: the annotation schema.  A constructor takes the raw mapping (a    *)
(* record holding the keys that were given) and returns the object, a record    *)
(* of all the fields of the class, or raises.  Required str fields that the     *)
(* generator reads with `or` (name, sql of a custom dimension) are kept in the  *)
(* Optional form, always present.                                               *)

LookerBooleanType == {"yes", "no"}

\* LookerMeasureType: member -> value.
LookerMeasureType ==
       ("number" :> <<"n","u","m","b","e","r">>)
    @@ ("string" :> <<"s","t","r","i","n","g">>)
    @@ ("average" :> <<"a","v","e","r","a","g","e">>)
    @@ ("average_distinct" :> <<"a","v","e","r","a","g","e","_","d","i","s","t","i","n","c","t">>)
    @@ ("count" :> <<"c","o","u","n","t">>)
    @@ ("count_distinct" :> <<"c","o","u","n","t","_","d","i","s","t","i","n","c","t">>)
    @@ ("list" :> <<"l","i","s","t">>)
    @@ ("max" :> <<"m","a","x">>)
    @@ ("median" :> <<"m","e","d","i","a","n">>)
    @@ ("median_distinct" :> <<"m","e","d","i","a","n","_","d","i","s","t","i","n","c","t">>)
    @@ ("min" :> <<"m","i","n">>)
    @@ ("sum" :> <<"s","u","m">>)
    @@ ("sum_distinct" :> <<"s","u","m","_","d","i","s","t","i","n","c","t">>)

\* LookerDimensionType: the values.
LookerDimensionType ==
    {"bin", "date", "date_time", "distance", "duration", "location", "number",
     "string", "time", "unquoted", "yesno", "zipcode"}

\* Dbt2LookerBaseField: the defaults.
Dbt2LookerBaseField ==
    [enabled |-> TRUE,
     group_item_label |-> None,
     group_label |-> None,
     hidden |-> None,
     html |-> None,
     label |-> None,
     links |-> None,
     required_access_grants |-> None,
     required_fields |-> None,
     suggestable |-> None,
     suggestions |-> None,
     tags |-> None,
     value_format |-> None,
     value_format_name |-> None,
     view_label |-> None]

\* Dbt2LookerBaseDimension: the defaults.
Dbt2LookerBaseDimension ==
    [case_sensitive |-> None,
     convert_tz |-> None,
     intervals |-> None,
     map_layer_name |-> None,
     primary_key |-> None,
     sql_end |-> None,
     sql_latitude |-> None,
     sql_longitude |-> None,
     sql_start |-> None,
     timeframes |-> None] @@ Dbt2LookerBaseField

\* Dbt2LookerDimension: the defaults; the class has no `type` field.
Dbt2LookerDimensionFields ==
    [name |-> None, sql |-> None, description |-> None] @@ Dbt2LookerBaseDimension

\* Dbt2LookerDimension(**raw): the per-column override.  A key of raw that is no
\* field of the class (`type`) is ignored.
Dbt2LookerDimension(raw) ==
    [k \in DOMAIN Dbt2LookerDimensionFields |->
        IF k \in DOMAIN raw THEN raw[k] ELSE Dbt2LookerDimensionFields[k]]

\* Dbt2LookerCustomDimension(**raw): name and sql are required, type defaults to string.
Dbt2LookerCustomDimension(raw) ==
    raw @@ [description |-> None, type |-> "string"] @@ Dbt2LookerBaseDimension

MultipleFilterNames ==
    <<"M","u","l","t","i","p","l","e"," ","f","i","l","t","e","r"," ","n","a","m","e","s"," ","p","r","o","v","i","d","e","d"," ","f","o","r"," ","a"," ","s","i","n","g","l","e"," ","f","i","l","t","e","r"," ","i","n"," ","m","e","a","s","u","r","e"," ","b","l","o","c","k">>

\* A validator that rejects only a filter of more than one key.
filters_are_singular_dicts_gt(v) ==
    IF v # None /\ \E i \in DOMAIN v[1] : Len(v[1][i]) > 1
    THEN Raise("ValueError", MultipleFilterNames, <<>>)
    ELSE Return(v, <<>>)

\* The field validator of Dbt2LookerMeasure.filters; v is Optional[list[dict]], a
\* dict being the sequence of its (key, value) pairs.
filters_are_singular_dicts(v) ==
    IF v # None /\ \E i \in DOMAIN v[1] : Len(v[1][i]) # 1
    THEN Raise("ValueError", MultipleFilterNames, <<>>)
    ELSE Return(v, <<>>)

\* pydantic reports the ValueError of a validator as a ValidationError.
ValidationError(x) == IF x.kind = "raise" THEN Raise("ValidationError", x.msg, <<>>) ELSE x

\* Dbt2LookerMeasure(**raw): the validator runs on a filters value that was given,
\* not on the default.
Dbt2LookerMeasure(raw) ==
    Bind(ValidationError(IF "filters" \in DOMAIN raw
                         THEN filters_are_singular_dicts(raw.filters)
                         ELSE Return(Some(<<>>), <<>>)),
         <<>>,
         LAMBDA v :
            Return([filters |-> v.value]
                   @@ raw
                   @@ [description |-> None, drill_fields |-> None, sql |-> None,
                       sql_distinct_key |-> None]
                   @@ Dbt2LookerBaseField, <<>>))

\* A list of measures from raw measure i on: the first error, or the objects.
RECURSIVE Measures(_, _, _)
Measures(raws, i, out) ==
    IF i > Len(raws)
    THEN Return(out, <<>>)
    ELSE Bind(Dbt2LookerMeasure(raws[i]), <<>>, LAMBDA m :
            Measures(raws, i + 1, Append(out, m.value)))

\* Dbt2LookerMeta(**raw), DbtModelColumnMeta: the fields are `measures` and
\* `dimensions`; any other key of raw is ignored.
Dbt2LookerMeta(raw) ==
    Bind(IF "measures" \in DOMAIN raw THEN Measures(raw.measures, 1, <<>>) ELSE Return(<<>>, <<>>),
         <<>>,
         LAMBDA ms :
            Return([measures |-> ms.value,
                    dimensions |-> IF "dimensions" \in DOMAIN raw
                                   THEN Dbt2LookerDimension(raw.dimensions)
                                   ELSE Dbt2LookerDimension(<<>>)], <<>>))

\* DbtModelColumn(**raw)
DbtModelColumn(raw) ==
    Bind(Dbt2LookerMeta(raw.meta), <<>>, LAMBDA meta :
        Return([name |-> raw.name,
                description |-> IF "description" \in DOMAIN raw THEN raw.description ELSE None,
                data_type |-> IF "data_type" \in DOMAIN raw THEN raw.data_type ELSE None,
                meta |-> meta.value], <<>>))

\* Dbt2LookerParameter(**raw)
Dbt2LookerParameter(raw) ==
    raw @@ [group_label |-> None, default_value |-> None, allowed_values |-> None]

\* Dbt2LookerModelMeta(**raw), DbtModelMeta
Dbt2LookerModelMeta(raw) ==
    Bind(IF "measures" \in DOMAIN raw THEN Measures(raw.measures, 1, <<>>) ELSE Return(<<>>, <<>>),
         <<>>,
         LAMBDA ms :
            Return([dimensions |-> IF "dimensions" \in DOMAIN raw
                                   THEN [i \in DOMAIN raw.dimensions |->
                                           Dbt2LookerCustomDimension(raw.dimensions[i])]
                                   ELSE <<>>,
                    measures |-> ms.value,
                    parameters |-> IF "parameters" \in DOMAIN raw
                                   THEN [i \in DOMAIN raw.parameters |->
                                           <<raw.parameters[i][1],
                                             Dbt2LookerParameter(raw.parameters[i][2])>>]
                                   ELSE <<>>], <<>>))

\* A dict as the sequence of its (key, value) pairs: d[k] = v.
DictSet(d, k, v) ==
    IF \E i \in DOMAIN d : d[i][1] = k
    THEN [i \in DOMAIN d |-> IF d[i][1] = k THEN <<k, v>> ELSE d[i]]
    ELSE Append(d, <<k, v>>)

DictHas(d, k) == \E i \in DOMAIN d : d[i][1] = k

DictGet(d, k) == d[CHOOSE i \in DOMAIN d : d[i][1] = k][2]

\* The field validator of DbtModel.columns:
\* {name.lower(): column.model_copy(update={"name": column.name.lower()}) for ...}
RECURSIVE case_insensitive_column_names(_)
case_insensitive_column_names(v) ==
    IF v = <<>>
    THEN <<>>
    ELSE LET front == case_insensitive_column_names(SubSeq(v, 1, Len(v) - 1))
             name == v[Len(v)][1]
             column == v[Len(v)][2]
         IN  DictSet(front, Lower(name), [column EXCEPT !.name = Lower(column.name)])

\* The columns mapping of a raw model from entry i on, each value parsed.
RECURSIVE Columns(_, _, _)
Columns(raws, i, out) ==
    IF i > Len(raws)
    THEN Return(out, <<>>)
    ELSE Bind(DbtModelColumn(raws[i][2]), <<>>, LAMBDA column :
            Columns(raws, i + 1, Append(out, <<raws[i][1], column.value>>)))

\* DbtModel(**raw): the columns and the meta block are parsed, then the validator
\* of `columns` runs.
DbtModel(raw) ==
    Bind(Columns(raw.columns, 1, <<>>), <<>>, LAMBDA columns :
        Bind(Dbt2LookerModelMeta(raw.meta), <<>>, LAMBDA meta :
            Return([unique_id |-> raw.unique_id,
                    name |-> raw.name,
                    relation_name |-> raw.relation_name,
                    description |-> raw.description,
                    columns |-> case_insensitive_column_names(columns.value),
                    meta |-> meta.value], <<>>)))

-----------------------------------------------------------------------------
(* generator.py: the field builders *)

\* Lines 225-250: an optional property is copied when it is truthy.
lookml_add_common_properties(looker_field, looker_dict) ==
    LET f == looker_field
        d1 == SetIf(Truthy(f.group_item_label), "group_item_label", f.group_item_label[1], looker_dict)
        d2 == SetIf(Truthy(f.group_label), "group_label", f.group_label[1], d1)
        d3 == SetIf(f.hidden # None, "hidden", f.hidden[1], d2)
        d4 == SetIf(Truthy(f.html), "html", f.html[1], d3)
        d5 == SetIf(Truthy(f.label), "label", f.label[1], d4)
        d6 == SetIf(Truthy(f.links), "links",
                    [i \in DOMAIN f.links[1] |->
                        [label |-> f.links[1][i].label, url |-> f.links[1][i].url]], d5)
        d7 == SetIf(Truthy(f.required_access_grants), "required_access_grants",
                    f.required_access_grants[1], d6)
        d8 == SetIf(Truthy(f.required_fields), "required_fields", f.required_fields[1], d7)
        d9 == SetIf(f.suggestable # None, "suggestable", f.suggestable[1], d8)
        d10 == SetIf(Truthy(f.tags), "tags", f.tags[1], d9)
        d11 == SetIf(Truthy(f.value_format), "value_format", f.value_format[1], d10)
        d12 == SetIf(f.value_format_name # None, "value_format_name", f.value_format_name[1], d11)
    IN  SetIf(Truthy(f.view_label), "view_label", f.view_label[1], d12)

NoneTypeHasNo(attr) == <<"'","N","o","n","e","T","y","p","e","'"," ","o","b","j","e","c","t"," ","h","a","s"," ","n","o"," ","a","t","t","r","i","b","u","t","e"," ","'">> \o attr \o <<"'">>

\* The rules with a pk_ rule that sets primary_key only.
dimension_key_rules_shown(d) ==
    LET p == IF StartsWith(d.name, <<"p","k","_">>)
             THEN ("primary_key" :> "yes") @@ d
             ELSE d
    IN  IF StartsWith(p.name, <<"f","k","_">>) THEN ("hidden" :> "yes") @@ p ELSE p

\* Lines 334-338: the rules on the final name of the field.
dimension_key_rules(d) ==
    LET p == IF StartsWith(d.name, <<"p","k","_">>)
             THEN ("primary_key" :> "yes") @@ ("hidden" :> "yes") @@ d
             ELSE d
    IN  IF StartsWith(p.name, <<"f","k","_">>) THEN ("hidden" :> "yes") @@ p ELSE p

\* Lines 310-333, 339: the dict of a dimension from its name, description and type.
\* d["description"] and d["type"] hold an Optional.
dimension_dict(dimension, name, description, type) ==
    LET is_time == In(type, looker_date_time_types)
        d0 == [name |-> name, description |-> description, type |-> type]
        d1 == SetIf(Truthy(dimension.sql), "sql", dimension.sql[1], d0)
        d2 == SetIf(type = Some("date") \/ is_time, "convert_tz",
                    IF dimension.convert_tz # None THEN dimension.convert_tz[1] ELSE "no", d1)
        d3 == SetIf(Truthy(dimension.intervals), "intervals",
                    OrElse(dimension.intervals, Some(looker_intervals))[1], d2)
        d4 == SetIf(Truthy(dimension.map_layer_name), "map_layer_name",
                    dimension.map_layer_name[1], d3)
        d5 == SetIf(dimension.primary_key # None, "primary_key", dimension.primary_key[1], d4)
        d6 == SetIf(Truthy(dimension.sql_end), "sql_end", dimension.sql_end[1], d5)
        d7 == SetIf(Truthy(dimension.sql_latitude), "sql_latitude", dimension.sql_latitude[1], d6)
        d8 == SetIf(Truthy(dimension.sql_longitude), "sql_longitude", dimension.sql_longitude[1], d7)
        d9 == SetIf(Truthy(dimension.sql_start), "sql_start", dimension.sql_start[1], d8)
        d10 == SetIf(Truthy(dimension.suggestions), "suggestions", dimension.suggestions[1], d9)
        d11 == IF is_time
               THEN ("name" :> RemoveSuffix(d10.name, <<"_","a","t">>))
                    @@ ("timeframes" :> OrElse(dimension.timeframes, Some(looker_timeframes))[1])
                    @@ d10
               ELSE d10
    IN  dimension_key_rules(lookml_add_common_properties(dimension, d11))

\* lookml_dimension(dimension, adapter_type, column): column is Optional, None for
\* a model-level custom dimension.  The dict literal reads column.name and
\* column.description when the dimension gives no truthy value of its own, and
\* the type of a dimension without a `type` attribute is mapped from the column.
lookml_dimension(dimension, adapter_type, column) ==
    IF ~Truthy(dimension.name) /\ column = None
    THEN Raise("AttributeError", NoneTypeHasNo(<<"n","a","m","e">>), <<>>)
    ELSE IF ~Truthy(dimension.description) /\ column = None
    THEN Raise("AttributeError", NoneTypeHasNo(<<"d","e","s","c","r","i","p","t","i","o","n">>), <<>>)
    ELSE IF "type" \notin DOMAIN dimension /\ column = None
    THEN Raise("AttributeError", NoneTypeHasNo(<<"d","a","t","a","_","t","y","p","e">>), <<>>)
    ELSE Bind(IF "type" \in DOMAIN dimension
              THEN Return(Some(dimension.type), <<>>)
              ELSE map_adapter_type_to_looker(adapter_type, column[1].data_type),
              <<>>,
              LAMBDA type :
                Return(dimension_dict(
                           dimension,
                           IF Truthy(dimension.name) THEN dimension.name[1] ELSE column[1].name,
                           IF Truthy(dimension.description)
                           THEN dimension.description
                           ELSE column[1].description,
                           type.value),
                       type.log))

\* `column.meta.dimension`: the attribute the builders read.  A pydantic object
\* has the attributes of its class's fields; reading another raises AttributeError.
column_meta_dimension(column) ==
    IF "dimension" \in DOMAIN column.meta
    THEN Return(column.meta.dimension, <<>>)
    ELSE Raise("AttributeError",
               <<"'","D","b","t","M","o","d","e","l","C","o","l","u","m","n","M","e","t","a","'"," ","o","b","j","e","c","t"," ","h","a","s"," ","n","o"," ","a","t","t","r","i","b","u","t","e"," ","'","d","i","m","e","n","s","i","o","n","'">>, <<>>)

\* The comprehension of lines 258-267 and 284-293 from column i on: the enabled
\* columns whose mapped type is in `types`, each turned into its field.
RECURSIVE column_fields(_, _, _, _, _, _)
column_fields(columns, i, adapter_type, types, fields, lg) ==
    IF i > Len(columns)
    THEN Return(fields, lg)
    ELSE Bind(column_meta_dimension(columns[i][2]), lg, LAMBDA dimension :
            IF ~dimension.value.enabled
            THEN column_fields(columns, i + 1, adapter_type, types, fields, lg)
            ELSE Bind(map_adapter_type_to_looker(adapter_type, columns[i][2].data_type), lg,
                      LAMBDA type :
                        IF ~In(type.value, types)
                        THEN column_fields(columns, i + 1, adapter_type, types, fields,
                                           lg \o type.log)
                        ELSE Bind(lookml_dimension(dimension.value, adapter_type,
                                                   Some(columns[i][2])),
                                  lg \o type.log,
                                  LAMBDA d :
                                    column_fields(columns, i + 1, adapter_type, types,
                                                  Append(fields, d.value),
                                                  lg \o type.log \o d.log))))

\* Lines 269-276 from custom dimension i on.
RECURSIVE custom_dimensions(_, _, _, _, _)
custom_dimensions(dimensions, i, adapter_type, fields, lg) ==
    IF i > Len(dimensions)
    THEN Return(fields, lg)
    ELSE IF ~In(Some(dimensions[i].type), looker_scalar_types)
    THEN custom_dimensions(dimensions, i + 1, adapter_type, fields, lg)
    ELSE Bind(lookml_dimension(dimensions[i], adapter_type, None), lg, LAMBDA d :
            custom_dimensions(dimensions, i + 1, adapter_type,
                              Append(fields, d.value), lg \o d.log))

lookml_dimensions_from_model(model, adapter_type) ==
    Bind(column_fields(model.columns, 1, adapter_type, looker_scalar_types, <<>>, <<>>),
         <<>>,
         LAMBDA column_dimensions :
            Bind(custom_dimensions(model.meta.dimensions, 1, adapter_type, <<>>,
                                   column_dimensions.log),
                 <<>>,
                 LAMBDA custom :
                    Return(column_dimensions.value \o custom.value, custom.log)))

lookml_dimension_groups_from_model(model, adapter_type) ==
    column_fields(model.columns, 1, adapter_type, looker_date_time_types, <<>>, <<>>)

\* The keys of a list of filter dicts, in the order the comprehension of line 375
\* reads them.
RECURSIVE filter_keys(_)
filter_keys(filters) ==
    IF filters = <<>>
    THEN <<>>
    ELSE [i \in DOMAIN Head(filters) |-> Head(filters)[i][1]] \o filter_keys(Tail(filters))

\* Lines 377-380: the message of the ValueError, e being str(KeyError(key)).
non_existent_column(unique_id, e) ==
    Concat(<<<<"M","o","d","e","l"," ">>, unique_id,
             <<" ","c","o","n","t","a","i","n","s"," ","a"," ","m","e","a","s","u","r","e"," ","t","h","a","t"," ","r","e","f","e","r","e","n","c","e","s"," ","a"," ","n","o","n","_","e","x","i","s","t","e","n","t"," ","c","o","l","u","m","n",":"," ">>, e,
             <<"\n">>, <<"E","n","s","u","r","e"," ","t","h","a","t"," ","d","b","t"," ","m","o","d","e","l"," ">>, unique_id,
             <<" ","c","o","n","t","a","i","n","s"," ","a"," ","c","o","l","u","m","n",":"," ">>, e>>)

\* Line 385 for one filter dict f from pair i on: the key of each pair becomes
\* `columns[column_name].meta.dimension.name or column_name`.
RECURSIVE renamed_filter(_, _, _, _)
renamed_filter(f, i, columns, out) ==
    IF i > Len(f)
    THEN Return(out, <<>>)
    ELSE Bind(column_meta_dimension(DictGet(columns, f[i][1])), <<>>, LAMBDA dimension :
            renamed_filter(f, i + 1, columns,
                           DictSet(out, OrElse(dimension.value.name, Some(f[i][1]))[1],
                                   f[i][2])))

\* Lines 384-387 from filter i on.
RECURSIVE renamed_filters(_, _, _, _)
renamed_filters(filters, i, columns, out) ==
    IF i > Len(filters)
    THEN Return(out, <<>>)
    ELSE Bind(renamed_filter(filters[i], 1, columns, <<>>), <<>>, LAMBDA f :
            renamed_filters(filters, i + 1, columns, Append(out, f.value)))

\* lookml_measure_filters(measure, model): measure.filters is a list here (the
\* caller tests its truth).  Every key is looked up in model.columns first; the
\* first KeyError is re-raised as a ValueError.
lookml_measure_filters(measure, model) ==
    LET filters == measure.filters[1]
        keys == filter_keys(filters)
        missing == {i \in DOMAIN keys : ~DictHas(model.columns, keys[i])}
    IN  IF missing # {}
        THEN LET i == CHOOSE i \in missing : \A j \in missing : i <= j
             IN  Raise("ValueError", non_existent_column(model.unique_id, Repr(keys[i])), <<>>)
        ELSE renamed_filters(filters, 1, model.columns, <<>>)

\* Lines 358-361: each right-hand side ends in a comma, so each value is a tuple
\* of one element.
column_measure_defaults(measure, column) ==
    [sql |-> <<OrElse(measure.sql, Some(<<"$","{","T","A","B","L","E","}",".">> \o column.name))[1]>>,
     description |->
        <<OrElse(measure.description,
                 OrElse(column.description,
                        Some(Concat(<<Capitalize(LookerMeasureType[measure.type]),
                                      <<" ","o","f"," ">>, column.name>>))))[1]>>]

\* lookml_measure(measure, model, adapter_type, column): column is Optional, None
\* for a model-level measure; a column object is truthy.
lookml_measure(measure, model, adapter_type, column) ==
    Bind(IF Truthy(measure.filters)
         THEN lookml_measure_filters(measure, model)
         ELSE Return(<<>>, <<>>),
         <<>>,
         LAMBDA filters :
            Return(lookml_add_common_properties(
                       measure,
                       SetIf(Truthy(measure.filters), "filters", filters.value,
                             IF column # None
                             THEN column_measure_defaults(measure, column[1])
                                  @@ [name |-> measure.name,
                                      type |-> LookerMeasureType[measure.type]]
                             ELSE SetIf(Truthy(measure.description), "description",
                                        measure.description[1],
                                        SetIf(Truthy(measure.sql), "sql", measure.sql[1],
                                              [name |-> measure.name,
                                               type |-> LookerMeasureType[measure.type]])))),
                   <<>>))

\* The (measure, column) pairs of lines 343-347, in order: the measures of each
\* column, then the model-level measures with no column.
RECURSIVE column_measures(_)
column_measures(columns) ==
    IF columns = <<>>
    THEN <<>>
    ELSE [i \in DOMAIN Head(columns)[2].meta.measures |->
            [measure |-> Head(columns)[2].meta.measures[i], column |-> Some(Head(columns)[2])]]
         \o column_measures(Tail(columns))

measure_declarations(model) ==
    column_measures(model.columns)
    \o [i \in DOMAIN model.meta.measures |->
            [measure |-> model.meta.measures[i], column |-> None]]

RECURSIVE measures_from(_, _, _, _, _)
measures_from(decls, i, model, adapter_type, out) ==
    IF i > Len(decls)
    THEN Return(out, <<>>)
    ELSE Bind(lookml_measure(decls[i].measure, model, adapter_type, decls[i].column), <<>>,
              LAMBDA m : measures_from(decls, i + 1, model, adapter_type, Append(out, m.value)))

lookml_measures_from_model(model, adapter_type) ==
    measures_from(measure_declarations(model), 1, model, adapter_type, <<>>)

\* lookml_parameter(parameter_name, parameter); type is the enum's value.
lookml_parameter(parameter_name, parameter) ==
    LET p0 == [name |-> parameter_name,
               label |-> parameter.label,
               description |-> parameter.description,
               type |-> parameter.type]
        p1 == SetIf(Truthy(parameter.group_label), "group_label", parameter.group_label[1], p0)
        p2 == SetIf(Truthy(parameter.default_value), "default_value",
                    parameter.default_value[1], p1)
    IN  SetIf(Truthy(parameter.allowed_values), "allowed_values",
              [i \in DOMAIN parameter.allowed_values[1] |->
                  [value |-> parameter.allowed_values[1][i].value,
                   label |-> parameter.allowed_values[1][i].label]], p2)

lookml_parameters_from_model(model) ==
    [i \in DOMAIN model.meta.parameters |->
        lookml_parameter(model.meta.parameters[i][1], model.meta.parameters[i][2])]

\* lkml.dump(lookml): the external renderer; its text is written as the mapping
\* it was given.
lkml_dump(lookml) == [lkml |-> lookml]

\* lookml_view_from_dbt_model(model, adapter_type): the four builders run in the
\* order of the dict literal; the first to raise ends the call.
lookml_view_from_dbt_model(model, adapter_type) ==
    Bind(lookml_dimension_groups_from_model(model, adapter_type), <<>>,
         LAMBDA dimension_groups :
    Bind(lookml_dimensions_from_model(model, adapter_type), dimension_groups.log,
         LAMBDA dimensions :
    Bind(lookml_measures_from_model(model, adapter_type),
         dimension_groups.log \o dimensions.log,
         LAMBDA measures :
            Return([filename |-> model.name \o <<".","v","i","e","w",".","l","k","m","l">>,
                    contents |-> lkml_dump(
                        [view |->
                            [name |-> model.name,
                             sql_table_name |-> model.relation_name,
                             dimension_groups |-> dimension_groups.value,
                             dimensions |-> dimensions.value,
                             parameters |-> lookml_parameters_from_model(model),
                             measures |-> measures.value]])],
                   dimension_groups.log \o dimensions.log))))

-----------------------------------------------------------------------------
(* The inputs *)

\* Bounds.
MaxTypeLen == 6
MaxFilters == 2
MaxColumns == 2

\* Raw column types: every string over TypeAlphabet up to MaxTypeLen characters,
\* and every type name of the tables and some unknown names, in upper and in lower
\* case, bare and decorated.
TypeAlphabet == {"(", ")", "1", "n"}

ShortTypes == UNION {[1..n -> TypeAlphabet] : n \in 0..MaxTypeLen}

UnknownTypeNames == {<<"T","I","M","E","S","T","A","M","P","T","Z">>, <<"S","T","R","U","C","T">>, <<"H","L","L","S","K","E","T","C","H">>}

TypeSuffixes == {<<>>, <<"(","1","0",",","2",")">>, <<"(","2","5","5",")">>, <<"<","S","T","R","I","N","G",">">>, <<"(","(","1","0",")",",","2",")">>}

DecoratedTypes ==
    UNION {{t \o x, Lower(t) \o x} : <<t, x>> \in (TypeNames \cup UnknownTypeNames) \X TypeSuffixes}

ColumnTypes == ShortTypes \cup DecoratedTypes

\* The columns and the dimension overrides that lookml_dimension is applied to.
DimensionColumns ==
    <<[name |-> <<"p","k","_","i","d">>, description |-> None],
      [name |-> <<"c","r","e","a","t","e","d","_","a","t">>, description |-> Some(<<"W","h","e","n"," ","t","h","e"," ","o","r","d","e","r"," ","w","a","s"," ","c","r","e","a","t","e","d">>)],
      [name |-> <<"f","k","_","c","u","s","t","o","m","e","r">>, description |-> None]>>

DimensionDataTypes ==
    <<Some(<<"I","N","T","E","G","E","R">>), Some(<<"t","i","m","e","s","t","a","m","p">>), Some(<<"D","A","T","E">>), Some(<<"A","R","R","A","Y","<","S","T","R","I","N","G",">">>), None>>

OverrideNames == <<None, Some(<<"i","d">>), Some(<<"p","k","_","a","l","t">>), Some(<<"s","e","e","n","_","a","t">>)>>
OverrideFlags == <<None, Some("yes"), Some("no")>>
OverrideSqls == <<None, Some(<<"$","{","T","A","B","L","E","}",".","x">>)>>
OverrideTimeframes == <<None, Some(<<<<"d","a","t","e">>, <<"m","o","n","t","h">>>>)>>

\* Overrides that set some of the other options each, the last one a `type`.
OtherOverrides ==
    <<[enabled |-> FALSE],
      [description |-> Some(<<"T","h","e"," ","k","e","y">>), label |-> Some(<<"K","e","y">>), tags |-> Some(<<<<"c","o","r","e">>>>)],
      [convert_tz |-> Some("yes"), group_label |-> Some(<<"K","e","y","s">>)],
      [intervals |-> Some(<<<<"w","e","e","k">>>>), value_format_name |-> Some("id"),
       suggestable |-> Some("no")],
      [links |-> Some(<<[label |-> <<"O","p","e","n">>, url |-> <<"/","o">>, icon_url |-> None]>>),
       suggestions |-> Some(<<<<"a">>>>), primary_key |-> Some("no"), hidden |-> Some("no"),
       name |-> Some(<<"p","k","_","i","d">>)],
      [type |-> "string", sql |-> Some(<<"C","A","S","T","(","$","{","T","A","B","L","E","}",".","x"," ","A","S"," ","S","T","R","I","N","G",")">>)]>>

\* Model-level custom dimensions.
CustomDimensions ==
    <<[name |-> Some(<<"m","a","r","g","i","n">>), sql |-> Some(<<"$","{","T","A","B","L","E","}",".","a"," ","-"," ","$","{","T","A","B","L","E","}",".","b">>),
       type |-> "number", description |-> Some(<<"M","a","r","g","i","n">>)],
      [name |-> Some(<<"p","k","_","p","a","i","r">>), sql |-> Some(<<"$","{","T","A","B","L","E","}",".","a">>),
       description |-> Some(<<"P","a","i","r">>)],
      [name |-> Some(<<"s","h","i","p","p","e","d">>), sql |-> Some(<<"$","{","T","A","B","L","E","}",".","s">>), type |-> "date_time",
       description |-> Some(<<"S","h","i","p","p","e","d">>)],
      [name |-> Some(<<"b","a","r","e">>), sql |-> Some(<<"$","{","T","A","B","L","E","}",".","b">>), type |-> "yesno"],
      [name |-> Some(<<"d","a","y">>), sql |-> Some(<<"$","{","T","A","B","L","E","}",".","d">>), type |-> "date",
       description |-> Some(<<"D","a","y">>), enabled |-> FALSE]>>

\* Filter dicts of a raw measure: no key, one key, two keys.
FilterDicts ==
    <<<<>>,
      <<<<<<"s","t","a","t","u","s">>, <<"a","c","t","i","v","e">>>>>>,
      <<<<<<"r","e","g","i","o","n">>, <<"u","s">>>>>>,
      <<<<<<"s","t","a","t","u","s">>, <<"a","c","t","i","v","e">>>>, <<<<"r","e","g","i","o","n">>, <<"u","s">>>>>>>>

\* Raw measures.
Measure(name, type) == [name |-> name, type |-> type]

WithFilters(raw, filters) == [filters |-> Some(filters)] @@ raw

\* Raw columns of a manifest, each with the key it is declared under.
ColumnPool ==
    <<<<<<"p","k","_","i","d">>,
        [name |-> <<"p","k","_","i","d">>, data_type |-> Some(<<"I","N","T","E","G","E","R">>), meta |-> <<>>]>>,
      <<<<"c","r","e","a","t","e","d","_","a","t">>,
        [name |-> <<"c","r","e","a","t","e","d","_","a","t">>, data_type |-> Some(<<"T","I","M","E","S","T","A","M","P">>), meta |-> <<>>]>>,
      <<<<"S","t","a","t","u","s">>,
        [name |-> <<"S","t","a","t","u","s">>, data_type |-> Some(<<"S","T","R","I","N","G">>),
         description |-> Some(<<"O","r","d","e","r"," ","s","t","a","t","u","s">>),
         meta |-> [measures |-> <<Measure(<<"n">>, "count")>>]]>>,
      <<<<"a","m","o","u","n","t">>,
        [name |-> <<"a","m","o","u","n","t">>, data_type |-> Some(<<"N","U","M","E","R","I","C","(","1","0",",","2",")">>),
         meta |-> [measures |->
            <<WithFilters(Measure(<<"p","a","i","d">>, "sum"), <<<<<<<<"S","t","a","t","u","s">>, <<"p","a","i","d">>>>>>>>)>>]]>>,
      <<<<"a","m","o","u","n","t">>,
        [name |-> <<"a","m","o","u","n","t">>, data_type |-> Some(<<"N","U","M","E","R","I","C","(","1","0",",","2",")">>),
         meta |-> [measures |->
            <<WithFilters([name |-> <<"n","e","t">>, type |-> "sum_distinct",
                           sql |-> Some(<<"$","{","T","A","B","L","E","}",".","n","e","t">>),
                           description |-> Some(<<"N","e","t"," ","a","m","o","u","n","t">>)],
                          <<<<<<<<"s","t","a","t","u","s">>, <<"p","a","i","d">>>>>>, <<<<<<"f","o","o">>, <<"1">>>>>>>>)>>]]>>,
      <<<<"a","m","o","u","n","t">>,
        [name |-> <<"a","m","o","u","n","t">>, data_type |-> Some(<<"I","N","T","E","G","E","R">>),
         meta |-> [measures |->
            <<WithFilters(Measure(<<"o","p","e","n">>, "average"), <<<<<<<<"s","t","a","t","u","s">>, <<"o","p","e","n">>>>>>>>)>>]]>>,
      <<<<"n","o","t","e">>,
        [name |-> <<"n","o","t","e">>,
         meta |-> [dimensions |-> [enabled |-> FALSE],
                   measures |-> <<Measure(<<"n","o","t","e","s">>, "count_distinct")>>]]>>,
      <<<<"t","a","g","s">>,
        [name |-> <<"t","a","g","s">>, data_type |-> Some(<<"A","R","R","A","Y","<","S","T","R","I","N","G",">">>),
         meta |-> [dimensions |-> [name |-> Some(<<"l","a","b","e","l","s">>)],
                   measures |->
            <<WithFilters(Measure(<<"t","a","g","g","e","d">>, "count"), <<<<<<<<"t","a","g","s">>, <<"c","o","r","e">>>>>>>>)>>]]>>,
      <<<<"q","t","y">>,
        [name |-> <<"q","t","y">>, data_type |-> Some(<<"I","N","T","E","G","E","R">>),
         meta |-> [measures |->
            <<WithFilters(Measure(<<"q">>, "max"),
                          <<<<<<<<"s","t","a","t","u","s">>, <<"a">>>>, <<<<"r","e","g","i","o","n">>, <<"u","s">>>>>>>>)>>]]>>,
      <<<<"S","T","A","T","U","S">>,
        [name |-> <<"S","T","A","T","U","S">>, data_type |-> Some(<<"B","O","O","L","E","A","N">>), meta |-> <<>>]>>>>

\* Raw model-level meta blocks.
ModelMetaPool ==
    <<<<>>,
      [dimensions |-> <<CustomDimensions[1]>>,
       measures |-> <<Measure(<<"r","o","w","s">>, "count")>>],
      [dimensions |-> <<CustomDimensions[4]>>],
      [measures |-> <<WithFilters(Measure(<<"f","o","o","s">>, "count"), <<<<<<<<"f","o","o">>, <<"1">>>>>>>>)>>],
      [dimensions |-> <<CustomDimensions[3], CustomDimensions[5]>>,
       measures |-> <<[name |-> <<"r","a","t","i","o">>, type |-> "number",
                       sql |-> Some(<<"1",".","0"," ","*"," ","$","{","a","}"," ","/"," ","$","{","b","}">>),
                       description |-> Some(<<"R","a","t","i","o">>), enabled |-> FALSE]>>,
       parameters |-> <<<<<<"g","r","a","i","n">>,
                          [label |-> <<"G","r","a","i","n">>, description |-> <<"T","i","m","e"," ","g","r","a","i","n">>,
                           type |-> "unquoted",
                           allowed_values |-> Some(<<[value |-> <<"d","a","y">>, label |-> <<"D","a","y">>]>>)]>>>>]>>

ManifestAdapters == {"bigquery", "spark"}

\* The columns mapping of a raw model: the pool's entries at the indices ix,
\* under distinct keys.
ColumnChoices ==
    UNION {{ix \in [1..n -> DOMAIN ColumnPool] :
                \A i, j \in 1..n : i < j => ColumnPool[ix[i]][1] # ColumnPool[ix[j]][1]}
           : n \in 0..MaxColumns}

RawModel(ix, meta) ==
    [unique_id |-> <<"m","o","d","e","l",".","s","h","o","p",".","o","r","d","e","r","s">>,
     name |-> <<"o","r","d","e","r","s">>,
     relation_name |-> <<"s","h","o","p",".","o","r","d","e","r","s">>,
     description |-> <<"O","r","d","e","r","s">>,
     columns |-> [i \in DOMAIN ix |-> ColumnPool[ix[i]]],
     meta |-> ModelMetaPool[meta]]

\* The filters value of a raw measure: up to MaxFilters dicts.
FilterChoices == UNION {[1..n -> DOMAIN FilterDicts] : n \in 0..MaxFilters}

-----------------------------------------------------------------------------
(* The state machine *)

NoCall == [fn |-> "none"]
NoRet == [kind |-> "none"]

\* A column type to map.
InitType ==
    \E adapter_type \in SupportedDbtAdapters, column_type \in ColumnTypes \cup {None} :
        /\ subject = [kind |-> "type",
                      adapter_type |-> adapter_type,
                      column_type |-> IF column_type = None THEN None ELSE Some(column_type)]
        /\ phase = "parsed"

\* A column and the dimension override parsed from the annotation raw.
ColumnDimension(adapter_type, column, data_type, raw) ==
    [kind |-> "dimension",
     adapter_type |-> adapter_type,
     column |-> Some([name |-> column.name,
                      description |-> column.description,
                      data_type |-> data_type,
                      meta |-> Dbt2LookerMeta(<<>>).value]),
     annotation |-> raw,
     dimension |-> Dbt2LookerDimension(raw)]

\* A column and its dimension override.
InitColumnDimension ==
    \E adapter_type \in SupportedDbtAdapters,
       c \in DOMAIN DimensionColumns, t \in DOMAIN DimensionDataTypes,
       n \in DOMAIN OverrideNames, h \in DOMAIN OverrideFlags, p \in DOMAIN OverrideFlags,
       s \in DOMAIN OverrideSqls, f \in DOMAIN OverrideTimeframes :
        /\ subject = ColumnDimension(adapter_type, DimensionColumns[c], DimensionDataTypes[t],
                                     [name |-> OverrideNames[n],
                                      hidden |-> OverrideFlags[h],
                                      primary_key |-> OverrideFlags[p],
                                      sql |-> OverrideSqls[s],
                                      timeframes |-> OverrideTimeframes[f]])
        /\ phase = "parsed"

InitOtherDimension ==
    \E adapter_type \in SupportedDbtAdapters,
       c \in DOMAIN DimensionColumns, t \in DOMAIN DimensionDataTypes,
       o \in DOMAIN OtherOverrides :
        /\ subject = ColumnDimension(adapter_type, DimensionColumns[c], DimensionDataTypes[t],
                                     OtherOverrides[o])
        /\ phase = "parsed"

\* A model-level custom dimension, which has no column.
InitCustomDimension ==
    \E adapter_type \in SupportedDbtAdapters, c \in DOMAIN CustomDimensions :
        /\ subject = [kind |-> "dimension",
                      adapter_type |-> adapter_type,
                      column |-> None,
                      annotation |-> CustomDimensions[c],
                      dimension |-> Dbt2LookerCustomDimension(CustomDimensions[c])]
        /\ phase = "parsed"

\* A raw measure: its filters absent, None, or a list.
InitMeasure ==
    /\ \/ subject = [kind |-> "measure", raw |-> Measure(<<"t","o","t","a","l">>, "sum")]
       \/ subject = [kind |-> "measure",
                     raw |-> [filters |-> None] @@ Measure(<<"t","o","t","a","l">>, "sum")]
       \/ \E ix \in FilterChoices :
            subject = [kind |-> "measure",
                       raw |-> WithFilters(Measure(<<"t","o","t","a","l">>, "sum"),
                                           [i \in DOMAIN ix |-> FilterDicts[ix[i]]])]
    /\ phase = "raw"

\* A raw model of a manifest.
InitManifest ==
    \E adapter_type \in ManifestAdapters, ix \in ColumnChoices, meta \in DOMAIN ModelMetaPool :
        /\ subject = [kind |-> "manifest",
                      adapter_type |-> adapter_type,
                      raw |-> RawModel(ix, meta)]
        /\ phase = "raw"

Init ==
    /\ \/ InitType
       \/ InitColumnDimension
       \/ InitOtherDimension
       \/ InitCustomDimension
       \/ InitMeasure
       \/ InitManifest
    /\ call = NoCall
    /\ ret = NoRet
    /\ log = <<>>

\* The outcome o of the call c ends the behaviour.
Finish(c, o) ==
    /\ phase' = "done"
    /\ call' = c
    /\ ret' = o
    /\ log' = log \o o.log
    /\ UNCHANGED subject

\* The outcome o of the constructor c: the object is kept beside the raw input.
Parsed(c, o, field) ==
    /\ phase' = IF o.kind = "raise" THEN "rejected" ELSE "parsed"
    /\ call' = c
    /\ ret' = o
    /\ subject' = IF o.kind = "raise" THEN subject ELSE (field :> o.value) @@ subject
    /\ UNCHANGED log

\* Dbt2LookerMeasure(**raw)
ParseMeasure ==
    /\ phase = "raw"
    /\ subject.kind = "measure"
    /\ Parsed([fn |-> "Dbt2LookerMeasure"], Dbt2LookerMeasure(subject.raw), "measure")

\* DbtModel(**raw), as the nodes of the manifest are parsed.
ParseModel ==
    /\ phase = "raw"
    /\ subject.kind = "manifest"
    /\ Parsed([fn |-> "DbtModel"], DbtModel(subject.raw), "model")

MapAdapterType ==
    /\ phase = "parsed"
    /\ subject.kind = "type"
    /\ Finish([fn |-> "map_adapter_type_to_looker"],
              map_adapter_type_to_looker(subject.adapter_type, subject.column_type))

LookmlDimension ==
    /\ phase = "parsed"
    /\ subject.kind = "dimension"
    /\ Finish([fn |-> "lookml_dimension"],
              lookml_dimension(subject.dimension, subject.adapter_type, subject.column))

LookmlDimensionGroups ==
    /\ phase = "parsed"
    /\ subject.kind = "manifest"
    /\ Finish([fn |-> "lookml_dimension_groups_from_model"],
              lookml_dimension_groups_from_model(subject.model, subject.adapter_type))

LookmlDimensions ==
    /\ phase = "parsed"
    /\ subject.kind = "manifest"
    /\ Finish([fn |-> "lookml_dimensions_from_model"],
              lookml_dimensions_from_model(subject.model, subject.adapter_type))

LookmlMeasures ==
    /\ phase = "parsed"
    /\ subject.kind = "manifest"
    /\ Finish([fn |-> "lookml_measures_from_model"],
              lookml_measures_from_model(subject.model, subject.adapter_type))

\* lookml_measure on one measure declaration of the model.
LookmlMeasure ==
    /\ phase = "parsed"
    /\ subject.kind = "manifest"
    /\ \E i \in DOMAIN measure_declarations(subject.model) :
        Finish([fn |-> "lookml_measure", decl |-> i],
               lookml_measure(measure_declarations(subject.model)[i].measure, subject.model,
                              subject.adapter_type,
                              measure_declarations(subject.model)[i].column))

\* lookml_measure_filters on one measure of the model that has filters.
LookmlMeasureFilters ==
    /\ phase = "parsed"
    /\ subject.kind = "manifest"
    /\ \E i \in DOMAIN measure_declarations(subject.model) :
        /\ Truthy(measure_declarations(subject.model)[i].measure.filters)
        /\ Finish([fn |-> "lookml_measure_filters", decl |-> i],
                  lookml_measure_filters(measure_declarations(subject.model)[i].measure,
                                         subject.model))

LookmlView ==
    /\ phase = "parsed"
    /\ subject.kind = "manifest"
    /\ Finish([fn |-> "lookml_view_from_dbt_model"],
              lookml_view_from_dbt_model(subject.model, subject.adapter_type))

Next ==
    \/ ParseMeasure
    \/ ParseModel
    \/ MapAdapterType
    \/ LookmlDimension
    \/ LookmlDimensionGroups
    \/ LookmlDimensions
    \/ LookmlMeasures
    \/ LookmlMeasure
    \/ LookmlMeasureFilters
    \/ LookmlView

Spec == Init /\ [][Next]_vars

-----------------------------------------------------------------------------
(* Properties *)

\* The generator function fn has been applied and has ended.
Done(fn) == phase = "done" /\ call.fn = fn

\* The str s contains the str sub.
Contains(s, sub) ==
    \E i \in 1..(Len(s) - Len(sub) + 1) : SubSeq(s, i, i + Len(sub) - 1) = sub

\* The dict d holds v under the key k.
Has(d, k, v) == k \in DOMAIN d /\ d[k] = v

\* The Looker type of a column, None when the column has no data_type.
MappedType(adapter_type, column) ==
    IF column.data_type = None
    THEN None
    ELSE map_adapter_type_to_looker(adapter_type, column.data_type).value

\* lookml_dimension has been applied to a column named pk_id of mapped type number.
PkIdNumber ==
    /\ Done("lookml_dimension")
    /\ subject.column # None
    /\ subject.column[1].name = <<"p","k","_","i","d">>
    /\ MappedType(subject.adapter_type, subject.column[1]) = Some("number")

PrimaryKeyHidden ==
    /\ ret.kind = "return"
    /\ Has(ret.value, "primary_key", "yes")
    /\ Has(ret.value, "hidden", "yes")

\* C1, as stated: for every adapter and every override, lookml_dimension on a
\* column named pk_id of mapped type number returns primary_key = "yes" and
\* hidden = "yes".
C1_PkIdAnyOverride == PkIdNumber => PrimaryKeyHidden

\* C1, amended: for every adapter and every override that sets no name or a name
\* starting with pk_, lookml_dimension on a column named pk_id of mapped type
\* number returns primary_key = "yes" and hidden = "yes", whatever the override
\* sets for hidden, primary_key or any other option.
C1_PkIdFinalName ==
    (/\ PkIdNumber
     /\ \/ ~Truthy(subject.dimension.name)
        \/ StartsWith(subject.dimension.name[1], <<"p","k","_">>))
    => PrimaryKeyHidden

\* An override that sets hidden and primary_key to "no" and no name.
C1_Witness ==
    /\ PkIdNumber
    /\ subject.dimension.name = None
    /\ subject.dimension.hidden = Some("no")
    /\ subject.dimension.primary_key = Some("no")
    /\ PrimaryKeyHidden

\* The model has an enabled, time-typed column created_at whose override sets
\* neither name nor timeframes.
CreatedAtColumn ==
    /\ DictHas(subject.model.columns, <<"c","r","e","a","t","e","d","_","a","t">>)
    /\ LET column == DictGet(subject.model.columns, <<"c","r","e","a","t","e","d","_","a","t">>)
       IN  /\ column.meta.dimensions.enabled
           /\ In(MappedType(subject.adapter_type, column), looker_date_time_types)
           /\ column.meta.dimensions.name = None
           /\ column.meta.dimensions.timeframes = None

\* C2: for an enabled time-typed column created_at without name or timeframes
\* override, lookml_dimension_groups_from_model emits exactly one entry named
\* created with the default timeframes and convert_tz = "no", and
\* lookml_dimensions_from_model emits no entry for the column.
C2_CreatedAtGroup ==
    /\ (Done("lookml_dimension_groups_from_model") /\ CreatedAtColumn)
       => /\ ret.kind = "return"
          /\ Cardinality({i \in DOMAIN ret.value : ret.value[i].name = <<"c","r","e","a","t","e","d">>}) = 1
          /\ \A i \in DOMAIN ret.value :
                ret.value[i].name = <<"c","r","e","a","t","e","d">>
                => /\ Has(ret.value[i], "timeframes", looker_timeframes)
                   /\ Has(ret.value[i], "convert_tz", "no")
    /\ (Done("lookml_dimensions_from_model") /\ CreatedAtColumn)
       => /\ ret.kind = "return"
          /\ \A i \in DOMAIN ret.value :
                ret.value[i].name \notin {<<"c","r","e","a","t","e","d">>, <<"c","r","e","a","t","e","d","_","a","t">>}

\* The filter keys of the measures of a model that are no key of its column map.
MissingFilterKeys(model) ==
    UNION {{filter_keys(measure_declarations(model)[i].measure.filters[1])[j] :
                j \in {j \in DOMAIN filter_keys(measure_declarations(model)[i].measure.filters[1]) :
                          ~DictHas(model.columns,
                                   filter_keys(measure_declarations(model)[i].measure.filters[1])[j])}}
           : i \in {i \in DOMAIN measure_declarations(model) :
                        Truthy(measure_declarations(model)[i].measure.filters)}}

\* C3: when a filter of a measure of a model names a column that is no key of
\* the column map, building the measures or the view of the model raises an
\* error whose message contains the model's identifier and the missing name.
C3_UnresolvedFilterNamed ==
    (/\ phase = "done"
     /\ call.fn \in {"lookml_measures_from_model", "lookml_view_from_dbt_model"}
     /\ MissingFilterKeys(subject.model) # {})
    => /\ ret.kind = "raise"
       /\ Contains(ret.msg, subject.model.unique_id)
       /\ \E k \in MissingFilterKeys(subject.model) : Contains(ret.msg, k)

\* The filters value given to the constructor of a measure is a list.
FiltersListed == "filters" \in DOMAIN subject.raw /\ subject.raw.filters # None

\* C4: a measure is accepted exactly when every entry of its filters list has
\* one key (an absent value and the empty list included); an accepted filters
\* value is kept unchanged; a rejection is the multiple-filter-names error.
C4_SingularFilters ==
    call.fn = "Dbt2LookerMeasure"
    => /\ ret.kind = "return"
          <=> (FiltersListed
               => \A i \in DOMAIN subject.raw.filters[1] : Len(subject.raw.filters[1][i]) = 1)
       /\ ret.kind = "return"
          => /\ phase = "parsed"
             /\ subject.measure.filters = IF "filters" \in DOMAIN subject.raw
                                          THEN subject.raw.filters
                                          ELSE Some(<<>>)
       /\ ret.kind = "raise"
          => /\ phase = "rejected"
             /\ ret.exc = "ValidationError"
             /\ ret.msg = MultipleFilterNames

\* A filters list with an entry of two keys has been rejected.
C4_Witness ==
    /\ call.fn = "Dbt2LookerMeasure"
    /\ phase = "rejected"
    /\ FiltersListed
    /\ \E i \in DOMAIN subject.raw.filters[1] : Len(subject.raw.filters[1][i]) = 2
    /\ ret.msg = MultipleFilterNames

\* The columns of a model without the one under index i.
WithoutColumn(model, i) ==
    [model EXCEPT !.columns = SubSeq(model.columns, 1, i - 1)
                              \o SubSeq(model.columns, i + 1, Len(model.columns))]

\* The view mapping a successful lookml_view_from_dbt_model returned.
View(r) == r.value.contents.lkml.view

\* C5: a column without data_type or with a type absent from the adapter's table
\* is skipped without raising: the mapper returns no type, the view is built,
\* the column is in neither list, the other columns' fields are those of the
\* model without the column, and a warning is logged exactly in the
\* declared-but-unrecognised case.
C5_UnmappedSkipped ==
    /\ Done("map_adapter_type_to_looker")
       => /\ subject.column_type = None
             => ret.kind = "return" /\ ret.value = None /\ log = <<>>
          /\ (ret.kind = "return" /\ ret.value = None /\ subject.column_type # None)
             => log # <<>>
    /\ Done("lookml_view_from_dbt_model")
       => \A i \in DOMAIN subject.model.columns :
            MappedType(subject.adapter_type, subject.model.columns[i][2]) = None
            => /\ ret.kind = "return"
               /\ View(ret).dimensions
                  = View(lookml_view_from_dbt_model(WithoutColumn(subject.model, i),
                                                    subject.adapter_type)).dimensions
               /\ View(ret).dimension_groups
                  = View(lookml_view_from_dbt_model(WithoutColumn(subject.model, i),
                                                    subject.adapter_type)).dimension_groups
               /\ (\E w \in DOMAIN log :
                      log[w].column_type = subject.model.columns[i][2].data_type[1])
                  <=> subject.model.columns[i][2].data_type # None

\* The columns of a model that are enabled and whose mapped type is in types.
ColumnsOfTypes(model, adapter_type, types) ==
    {i \in DOMAIN model.columns :
        /\ model.columns[i][2].meta.dimensions.enabled
        /\ In(MappedType(adapter_type, model.columns[i][2]), types)}

\* C6: the view of every model has one dimension group per enabled time-typed
\* column, one dimension per enabled scalar column and per scalar custom
\* dimension, and one measure per column-level or model-level declaration.
C6_ViewLengths ==
    Done("lookml_view_from_dbt_model")
    => /\ ret.kind = "return"
       /\ Len(View(ret).dimension_groups)
          = Cardinality(ColumnsOfTypes(subject.model, subject.adapter_type,
                                       looker_date_time_types))
       /\ Len(View(ret).dimensions)
          = Cardinality(ColumnsOfTypes(subject.model, subject.adapter_type,
                                       looker_scalar_types))
            + Cardinality({i \in DOMAIN subject.model.meta.dimensions :
                              In(Some(subject.model.meta.dimensions[i].type),
                                 looker_scalar_types)})
       /\ Len(View(ret).measures) = Len(measure_declarations(subject.model))

\* The six Looker types of the tables.
LookerTypes == {"number", "yesno", "string", "date", "datetime", "timestamp"}

\* C7: for each of the five adapters, every key of the adapter's table maps to
\* one of the six Looker types and is among the raw types applied; a raw type
\* whose normalised form is a key returns the table's value, any other raw type
\* returns None without raising; a returned type is in exactly one of the scalar
\* and the time types.
C7_TableTypes ==
    /\ DOMAIN LOOKER_DTYPE_MAP = SupportedDbtAdapters
    /\ Cardinality(SupportedDbtAdapters) = 5
    /\ \A a \in SupportedDbtAdapters :
        \A k \in DOMAIN LOOKER_DTYPE_MAP[a] : LOOKER_DTYPE_MAP[a][k] \in LookerTypes
    /\ (phase = "parsed" /\ subject.kind = "type" /\ subject.column_type = None)
       => \A k \in DOMAIN LOOKER_DTYPE_MAP[subject.adapter_type] :
            \E t \in TypeNames : Join(t) = k
    /\ (Done("map_adapter_type_to_looker") /\ subject.column_type # None)
       => /\ ret.kind = "return"
          /\ Join(normalised_column_type(subject.adapter_type, subject.column_type[1]))
                \in DOMAIN LOOKER_DTYPE_MAP[subject.adapter_type]
             => /\ ret.value # None
                /\ ret.value[1] \in LookerTypes
                /\ ret.value[1]
                   = LOOKER_DTYPE_MAP[subject.adapter_type][
                        Join(normalised_column_type(subject.adapter_type,
                                                    subject.column_type[1]))]
          /\ Join(normalised_column_type(subject.adapter_type, subject.column_type[1]))
                \notin DOMAIN LOOKER_DTYPE_MAP[subject.adapter_type]
             => ret.value = None
          /\ ret.value # None
             => In(ret.value, looker_scalar_types) # In(ret.value, looker_date_time_types)

\* A decorated lower-case key of the table has been mapped to a date, a scalar type.
C7_Witness ==
    /\ Done("map_adapter_type_to_looker")
    /\ subject.adapter_type = "bigquery"
    /\ subject.column_type = Some(<<"d","a","t","e","(","2","5","5",")">>)
    /\ ret.kind = "return"
    /\ ret.value = Some("date")
    /\ In(ret.value, looker_scalar_types)
    /\ ~In(ret.value, looker_date_time_types)

\* Normalising s again changes nothing.
Idempotent(adapter_type, s) ==
    normalised_column_type(adapter_type, normalised_column_type(adapter_type, s))
    = normalised_column_type(adapter_type, s)

\* The Looker type of s is that of s in upper case, hence that of every raw type
\* that differs from s in letter case only.
SameInAnyCase(adapter_type, s) ==
    /\ map_adapter_type_to_looker(adapter_type, Some(Upper(s))).value
       = map_adapter_type_to_looker(adapter_type, Some(s)).value
    /\ map_adapter_type_to_looker(adapter_type, Some(Lower(s))).value
       = map_adapter_type_to_looker(adapter_type, Some(s)).value

\* No "(" of s is followed by another "(" before a ")".
NoNestedParenthesis(s) ==
    \A i, j \in DOMAIN s :
        (i < j /\ s[i] = "(" /\ s[j] = "(") => \E k \in (i + 1)..(j - 1) : s[k] = ")"

\* C8, as stated: for every adapter and every raw type s, normalising is
\* idempotent, and the raw types that differ in letter case only map to the same
\* Looker type.
C8_IdempotentAnyType ==
    (Done("map_adapter_type_to_looker") /\ subject.column_type # None)
    => /\ Idempotent(subject.adapter_type, subject.column_type[1])
       /\ SameInAnyCase(subject.adapter_type, subject.column_type[1])
       /\ ret.value = map_adapter_type_to_looker(subject.adapter_type,
                                                 Some(Upper(subject.column_type[1]))).value

\* C8, amended: normalising is idempotent for spark on every raw type, and for
\* the other adapters on every raw type without nested parentheses; for every
\* adapter and every raw type, the raw types that differ in letter case only map
\* to the same Looker type.
C8_IdempotentUnnested ==
    (Done("map_adapter_type_to_looker") /\ subject.column_type # None)
    => /\ (subject.adapter_type = "spark" \/ NoNestedParenthesis(subject.column_type[1]))
          => Idempotent(subject.adapter_type, subject.column_type[1])
       /\ SameInAnyCase(subject.adapter_type, subject.column_type[1])
       /\ ret.value = map_adapter_type_to_looker(subject.adapter_type,
                                                 Some(Upper(subject.column_type[1]))).value

\* numeric(10,2) in lower case, its precision stripped, has been mapped to number.
C8_Witness ==
    /\ Done("map_adapter_type_to_looker")
    /\ subject.adapter_type = "postgres"
    /\ subject.column_type = Some(<<"n","u","m","e","r","i","c","(","1","0",",","2",")">>)
    /\ normalised_column_type("postgres", subject.column_type[1]) = <<"N","U","M","E","R","I","C">>
    /\ Idempotent("postgres", subject.column_type[1])
    /\ ret.value = Some("number")
    /\ ret.value = map_adapter_type_to_looker("postgres", Some(<<"N","U","M","E","R","I","C","(","1","0",",","2",")">>)).value

\* Every filter key of the measure is, up to letter case, the name a column of
\* the raw model was declared under.
FilterKeysDeclared(measure) ==
    \A j \in DOMAIN filter_keys(measure.filters[1]) :
        \E c \in DOMAIN subject.raw.columns :
            Lower(subject.raw.columns[c][1]) = Lower(filter_keys(measure.filters[1])[j])

\* C9: the keys of the column map of a constructed model and the names of its
\* columns are lower-case, and a measure filter whose key differs from a
\* declared column's name in letter case only resolves in lookml_measure_filters
\* instead of failing as an unresolved reference.
C9_CaseInsensitiveColumns ==
    /\ (subject.kind = "manifest" /\ phase \in {"parsed", "done"})
       => \A i \in DOMAIN subject.model.columns :
            /\ subject.model.columns[i][1] = Lower(subject.model.columns[i][1])
            /\ subject.model.columns[i][2].name = Lower(subject.model.columns[i][2].name)
    /\ (/\ Done("lookml_measure_filters")
        /\ FilterKeysDeclared(measure_declarations(subject.model)[call.decl].measure))
       => ~(ret.kind = "raise" /\ ret.exc = "ValueError")

\* C10: a measure built from a column has the sql of the measure or the string
\* ${TABLE}.<column name>, and the description of the measure, else of the
\* column, else the string "<Capitalized type> of <column name>"; a model-level
\* measure has the keys sql and description only when the measure gives them.
C10_MeasureDefaults ==
    (Done("lookml_measure") /\ ret.kind = "return")
    => LET measure == measure_declarations(subject.model)[call.decl].measure
           column == measure_declarations(subject.model)[call.decl].column
       IN  IF column # None
           THEN /\ ret.value.sql
                   = OrElse(measure.sql, Some(<<"$","{","T","A","B","L","E","}",".">> \o column[1].name))[1]
                /\ ret.value.description
                   = OrElse(measure.description,
                            OrElse(column[1].description,
                                   Some(Concat(<<Capitalize(LookerMeasureType[measure.type]),
                                                 <<" ","o","f"," ">>, column[1].name>>))))[1]
           ELSE /\ "sql" \in DOMAIN ret.value <=> Truthy(measure.sql)
                /\ "description" \in DOMAIN ret.value <=> Truthy(measure.description)
                /\ Truthy(measure.sql) => ret.value.sql = measure.sql[1]
                /\ Truthy(measure.description)
                   => ret.value.description = measure.description[1]

\* The measure lookml_measure_filters has been applied to.
FilteredMeasure == measure_declarations(subject.model)[call.decl].measure

\* lookml_measure_filters has been applied to a measure whose filter keys are all
\* keys of the column map of the model.
FilterKeysResolve ==
    /\ Done("lookml_measure_filters")
    /\ \A j \in DOMAIN filter_keys(FilteredMeasure.filters[1]) :
          DictHas(subject.model.columns, filter_keys(FilteredMeasure.filters[1])[j])

\* C11: when every filter key of a measure is a column of the model,
\* lookml_measure_filters returns a list of the length and order of the filters,
\* each entry having one key, the name set by the column's dimension override
\* or else the raw column name, mapped to the unchanged filter expression.
C11_RenamedFilters ==
    FilterKeysResolve
    => /\ ret.kind = "return"
       /\ Len(ret.value) = Len(FilteredMeasure.filters[1])
       /\ \A i \in DOMAIN ret.value :
            /\ Len(ret.value[i]) = 1
            /\ ret.value[i][1][1]
               = OrElse(DictGet(subject.model.columns,
                                FilteredMeasure.filters[1][i][1][1]).meta.dimensions.name,
                        Some(FilteredMeasure.filters[1][i][1][1]))[1]
            /\ ret.value[i][1][2] = FilteredMeasure.filters[1][i][1][2]

\* The name a field is emitted under: a dimension group's loses a trailing _at.
EmittedName(name, type) ==
    IF In(type, looker_date_time_types) THEN RemoveSuffix(name, <<"_","a","t">>) ELSE name

\* C12: lookml_dimension emits the name, the sql and the type given on the
\* annotation, for a per-column override and for a model-level custom dimension,
\* in place of the column's name and mapped type; a per-column override without
\* type emits map_adapter_type_to_looker(adapter_type, column.data_type).
C12_AnnotationPrecedence ==
    Done("lookml_dimension")
    => /\ ret.kind = "return"
       /\ Truthy(subject.dimension.name)
          => ret.value.name = EmittedName(subject.annotation.name[1], ret.value.type)
       /\ (~Truthy(subject.dimension.name) /\ subject.column # None)
          => ret.value.name = EmittedName(subject.column[1].name, ret.value.type)
       /\ Truthy(subject.dimension.sql) => Has(ret.value, "sql", subject.annotation.sql[1])
       /\ "type" \in DOMAIN subject.annotation
          => ret.value.type = Some(subject.annotation.type)
       /\ ("type" \notin DOMAIN subject.annotation /\ subject.column # None)
          => ret.value.type = MappedType(subject.adapter_type, subject.column[1])

\* The fields of a list that are named name.
Named(fields, name) == {i \in DOMAIN fields : fields[i].name = name}

\* The model has a column whose dimension override has enabled = false.
DisabledColumn(model) ==
    \E i \in DOMAIN model.columns : ~model.columns[i][2].meta.dimensions.enabled

\* A measure of a disabled column, or a measure that has enabled = false itself.
DisabledMeasure(model) ==
    \E i \in DOMAIN measure_declarations(model) :
        \/ ~measure_declarations(model)[i].measure.enabled
        \/ /\ measure_declarations(model)[i].column # None
           /\ ~measure_declarations(model)[i].column[1].meta.dimensions.enabled

\* C13: a column whose dimension override has enabled = false has no entry in
\* the dimensions and the dimension groups of its model, yet its measures are
\* emitted; a measure and a scalar custom dimension are emitted whatever their
\* own enabled flag (the filters of the measures naming columns of the model).
C13_EnabledGatesColumns ==
    /\ (/\ phase = "done"
        /\ call.fn \in {"lookml_dimensions_from_model", "lookml_dimension_groups_from_model"}
        /\ DisabledColumn(subject.model))
       => /\ ret.kind = "return"
          /\ \A i \in DOMAIN subject.model.columns :
                ~subject.model.columns[i][2].meta.dimensions.enabled
                => Named(ret.value, subject.model.columns[i][2].name) = {}
    /\ (/\ Done("lookml_measures_from_model")
        /\ DisabledMeasure(subject.model)
        /\ MissingFilterKeys(subject.model) = {})
       => /\ ret.kind = "return"
          /\ Len(ret.value) = Len(measure_declarations(subject.model))
          /\ \A i \in DOMAIN ret.value :
                ret.value[i].name = measure_declarations(subject.model)[i].measure.name
    /\ Done("lookml_dimensions_from_model")
       => \A i \in DOMAIN subject.model.meta.dimensions :
            (/\ ~subject.model.meta.dimensions[i].enabled
             /\ In(Some(subject.model.meta.dimensions[i].type), looker_scalar_types))
            => /\ ret.kind = "return"
               /\ Named(ret.value, subject.model.meta.dimensions[i].name[1]) # {}

====
